---- MODULE Spec2Model ----
(***************************************************************************)
(* Model of src/app_final.py (UCCuyo - Valorador de Informes Finales).     *)
(*                                                                         *)
(* A Python str is modelled as a sequence of characters, each character a  *)
(* one-element TLA+ string.  Characters outside ASCII are written by their *)
(* code point: "U+0130" is LATIN CAPITAL LETTER I WITH DOT ABOVE, "U+0307" *)
(* COMBINING DOT ABOVE, "U+00D3"/"U+00F3" O WITH ACUTE (capital/small),    *)
(* "U+2013" EN DASH.  Indices are 0-based as in Python: the model's        *)
(* At(s, k) is the source's s[k] and Slice(s, i, k) is s[i:k].             *)
(*                                                                         *)
(* Percentages are kept in hundredths (8000 is 80.00), the precision of    *)
(* round(total, 2).                                                        *)
(***************************************************************************)
EXTENDS Integers, Sequences, FiniteSets, TLC

VARIABLES
    pc,          \* position of the modelled call
    raw_text,    \* the extracted text (UI line 240-246; make_word's raw_text)
    max_len,     \* max_len of _add_full_text_as_paragraphs/_split_long_paragraphs
    text,        \* the text parameter of _add_full_text_as_paragraphs
    blocks,      \* blocks of _add_full_text_as_paragraphs (line 137-140)
    bi,          \* number of blocks the for loop of line 142 has consumed
    stext,       \* text of _split_long_paragraphs after line 113
    i,           \* cursor i of _split_long_paragraphs
    n,           \* n of _split_long_paragraphs
    chunks,      \* chunks of _split_long_paragraphs
    doc,         \* the paragraphs added to the document, in order
    RUBRIC,      \* the loaded rubric (line 20)
    auto_scores, \* auto_scores of the UI (line 255)
    scores,      \* scores of the UI (line 267)
    final_pct,   \* final_pct, in hundredths
    label        \* label (the decision)

vars == <<pc, raw_text, max_len, text, blocks, bi, stext, i, n, chunks, doc,
          RUBRIC, auto_scores, scores, final_pct, label>>

evidenceVars == <<max_len, text, blocks, bi, stext, i, n, chunks, doc>>
scoringVars == <<RUBRIC, auto_scores, scores, final_pct, label>>

----------------------------------------------------------------------------
(* Bounds of the model.                                                    *)

MaxTextLen == 6      \* longest text given to _add_full_text_as_paragraphs
MaxMaxLen == 4       \* largest max_len tried
MaxTokens == 3       \* most tokens in a text given to make_word
MaxScoreTokens == 2  \* most tokens in a text given to naive_auto_score
MaxWords == 5        \* longest keyword list of a criterion
NumCriteria == 2     \* how many of the eleven CRITERIA an evaluation scores
MaxPct == 10000      \* largest percentage given to decision (100.00)

----------------------------------------------------------------------------
(* Python str primitives.                                                  *)

Min(a, b) == IF a <= b THEN a ELSE b

At(s, k) == s[k + 1]

Slice(s, a, b) == SubSeq(s, a + 1, b)

\* str.isspace() for the characters of the model
IsSpace(c) == c \in {" ", "\n", "\t"}

\* s.lstrip()
RECURSIVE LStrip(_)
LStrip(s) ==
    IF s = <<>> THEN <<>>
    ELSE IF IsSpace(Head(s)) THEN LStrip(Tail(s)) ELSE s

\* s.rstrip()
RECURSIVE RStrip(_)
RStrip(s) ==
    IF s = <<>> THEN <<>>
    ELSE IF IsSpace(s[Len(s)]) THEN RStrip(SubSeq(s, 1, Len(s) - 1)) ELSE s

\* s.strip()
Strip(s) == RStrip(LStrip(s))

\* s.startswith(p, k)
StartsWithAt(s, p, k) ==
    /\ k + Len(p) <= Len(s)
    /\ \A x \in 1..Len(p) : s[k + x] = p[x]

\* p in s
Contains(s, p) == \E k \in 0..Len(s) : StartsWithAt(s, p, k)

\* s.find(p): the lowest index at which p occurs, -1 when there is none
Find(s, p) ==
    IF Contains(s, p)
    THEN CHOOSE k \in 0..Len(s) :
            /\ StartsWithAt(s, p, k)
            /\ \A m \in 0..(k - 1) : ~StartsWithAt(s, p, m)
    ELSE -1

\* s.rfind(c, a, b) for a one-character c: the highest index in [a, b)
RFind(s, c, a, b) ==
    LET hits == {k \in a..(b - 1) : At(s, k) = c}
    IN  IF hits = {} THEN -1
        ELSE CHOOSE k \in hits : \A m \in hits : m <= k

\* sep.join(list) for a list of strings
RECURSIVE Join(_, _)
Join(sep, list) ==
    IF list = <<>> THEN <<>>
    ELSE IF Len(list) = 1 THEN list[1]
    ELSE list[1] \o sep \o Join(sep, Tail(list))

\* [x for x in list if x]
RECURSIVE NonEmpty(_)
NonEmpty(list) ==
    IF list = <<>> THEN <<>>
    ELSE IF Head(list) = <<>> THEN NonEmpty(Tail(list))
    ELSE <<Head(list)>> \o NonEmpty(Tail(list))

\* s.split("\n")
RECURSIVE SplitNewline(_)
SplitNewline(s) ==
    IF \A x \in 1..Len(s) : s[x] # "\n" THEN <<s>>
    ELSE LET p == CHOOSE x \in 1..Len(s) :
                     s[x] = "\n" /\ \A y \in 1..(x - 1) : s[y] # "\n"
         IN  <<SubSeq(s, 1, p - 1)>> \o SplitNewline(SubSeq(s, p + 1, Len(s)))

\* s.splitlines(): like split("\n"), but a final line break opens no last line
SplitLines(s) ==
    IF s = <<>> THEN <<>>
    ELSE IF s[Len(s)] = "\n" THEN SplitNewline(SubSeq(s, 1, Len(s) - 1))
    ELSE SplitNewline(s)

\* the length of the run of newlines that starts at 1-based position x
RECURSIVE NewlineRun(_, _)
NewlineRun(s, x) ==
    IF x > Len(s) \/ s[x] # "\n" THEN 0 ELSE 1 + NewlineRun(s, x + 1)

\* re.split(r"\n{2,}", s): the leftmost run of two or more newlines is
\* matched whole (the quantifier is greedy), and the rest is split again
RECURSIVE ReSplitNewlines(_)
ReSplitNewlines(s) ==
    LET starts == {x \in 1..Len(s) : NewlineRun(s, x) >= 2}
    IN  IF starts = {} THEN <<s>>
        ELSE LET p == CHOOSE x \in starts : \A y \in starts : x <= y
                 r == NewlineRun(s, p)
             IN  <<SubSeq(s, 1, p - 1)>>
                     \o ReSplitNewlines(SubSeq(s, p + r, Len(s)))

----------------------------------------------------------------------------
(* str.lower().  It maps one character to a string: the lower case of      *)
(* U+0130 is the two characters "i" U+0307, so lower() can lengthen a      *)
(* text and shift the positions after such a character.                    *)

Uppers == <<"A","B","C","D","E","F","G","H","I","J","K","L","M",
            "N","O","P","Q","R","S","T","U","V","W","X","Y","Z">>

Lowers == <<"a","b","c","d","e","f","g","h","i","j","k","l","m",
            "n","o","p","q","r","s","t","u","v","w","x","y","z">>

LowerChar(c) ==
    IF c = "U+0130" THEN <<"i", "U+0307">>
    ELSE IF c = "U+00D3" THEN <<"U+00F3">>
    ELSE IF \E x \in 1..Len(Uppers) : Uppers[x] = c
         THEN <<Lowers[CHOOSE x \in 1..Len(Uppers) : Uppers[x] = c]>>
         ELSE <<c>>

RECURSIVE Lower(_)
Lower(s) == IF s = <<>> THEN <<>> ELSE LowerChar(Head(s)) \o Lower(Tail(s))

----------------------------------------------------------------------------
(* Helpers Word: _split_long_paragraphs, _add_full_text_as_paragraphs,     *)
(* _recortar_evidencia_final.                                              *)

DefaultMaxLen == 2000

\* int(max_len*0.6); equal to floor(6*max_len/10) for every max_len the
\* model uses (the float product is exact enough up to 3000 at least)
SixTenths(ml) == (ml * 6) \div 10

\* CutPoint with the window one character too wide
CutPointWideWindow(t, a, ml) ==
    LET j == Min(a + ml + 1, Len(t))
        k == RFind(t, " ", a, j)
    IN  IF k = -1 \/ k <= a + SixTenths(ml) THEN j ELSE k

\* CutPoint accepting a space that is not past the cursor (k < for k <=)
CutPointAtCursor(t, a, ml) ==
    LET j == Min(a + ml, Len(t))
        k == RFind(t, " ", a, j)
    IN  IF k = -1 \/ k < a + SixTenths(ml) THEN j ELSE k

\* lines 120-124: the cut point k of one iteration
CutPoint(t, a, ml) ==
    LET j == Min(a + ml, Len(t))
        k == RFind(t, " ", a, j)
    IN  IF k = -1 \/ k <= a + SixTenths(ml) THEN j ELSE k

\* Chunk that steps over the character at the cut, taking it for a separator
ChunkSkipFirst(t, a, k) == Strip(Slice(t, a + 1, k))

\* line 125: text[i:k].strip()
Chunk(t, a, k) == Strip(Slice(t, a, k))

\* line 143: " ".join([ln.strip() for ln in block.splitlines() if ln.strip()])
NormalizeBlock(block) ==
    LET lines == SplitLines(block)
    IN  Join(<<" ">>, NonEmpty([x \in 1..Len(lines) |-> Strip(lines[x])]))

\* lines 137-140: the blocks of a (non-empty) text
SegmentBlocks(t) ==
    IF Contains(t, <<"\n", "\n">>)
    THEN ReSplitNewlines(Strip(t))
    ELSE SplitNewline(t)

inicios ==
    << <<"I","N","F","O","R","M","E"," ","F","I","N","A","L">>,
       <<"I","N","F","O","R","M","E"," ","F","I","N","A","L"," ",
         "D","E","L"," ","P","R","O","Y","E","C","T","O">>,
       <<"I","N","F","O","R","M","E"," ","F","I","N","A","L"," ",
         "D","E"," ","I","N","V","E","S","T","I","G","A","C","I","U+00D3","N">>,
       <<"I","N","F","O","R","M","E"," ","F","I","N","A","L"," ","U+2013">>,
       <<"I","N","F","O","R","M","E"," ","F","I","N","A","L",":">>,
       <<"I","N","F","O","R","M","E"," ","D","E"," ","A","V","A","N","C","E">> >>

\* lines 169-173: start_pos after the patterns from index x on, given the
\* value it has before them
RECURSIVE StartPos(_, _, _)
StartPos(lower, x, start_pos) ==
    IF x > Len(inicios) THEN start_pos
    ELSE LET pos == Find(lower, Lower(inicios[x]))
         IN  StartPos(lower, x + 1,
                      IF pos # -1 /\ (start_pos = -1 \/ pos < start_pos)
                      THEN pos ELSE start_pos)

\* lines 151-176
RecortarEvidenciaFinal(raw) ==
    IF raw = <<>> THEN raw
    ELSE LET start_pos == StartPos(Lower(raw), 1, -1)
         IN  IF start_pos = -1 THEN Strip(raw)
             ELSE Strip(Slice(raw, start_pos, Len(raw)))

----------------------------------------------------------------------------
(* Inputs.                                                                 *)

RECURSIVE Flatten(_)
Flatten(list) == IF list = <<>> THEN <<>> ELSE Head(list) \o Flatten(Tail(list))

SeqsUpTo(S, k) == UNION {[1..m -> S] : m \in 0..k}

\* texts given to _add_full_text_as_paragraphs
FormatAlphabet == {"a", "b", " ", "\n"}

FormatTexts == SeqsUpTo(FormatAlphabet, MaxTextLen)

\* texts given to make_word: pieces of a report around its heading
WordTokens ==
    { <<"U+0130">>, <<"x">>, <<" ">>, <<"\n">>,
      <<"I","N","F","O","R","M","E"," ","F","I","N","A","L">>,
      <<"I","n","f","o","r","m","e"," ","d","e"," ","A","v","a","n","c","e">> }

WordTexts == {Flatten(ts) : ts \in SeqsUpTo(WordTokens, MaxTokens)}

NoRubric == [weights |-> <<>>, keywords |-> <<>>, scale |-> <<>>, thresholds |-> <<>>]

ScoringIdle ==
    /\ RUBRIC = NoRubric
    /\ auto_scores = <<>>
    /\ scores = <<>>
    /\ final_pct = 0
    /\ label = ""

EvidenceIdle ==
    /\ max_len = DefaultMaxLen
    /\ text = <<>>
    /\ blocks = <<>>
    /\ bi = 0
    /\ stext = <<>>
    /\ i = 0
    /\ n = 0
    /\ chunks = <<>>
    /\ doc = <<>>

----------------------------------------------------------------------------
(* make_word, lines 224-226: the evidence section of the Word report.      *)

\* line 225: evidencia = _recortar_evidencia_final(raw_text)
Recortar ==
    /\ pc = "make_word"
    /\ text' = RecortarEvidenciaFinal(raw_text)
    /\ pc' = "add_full_text"
    /\ UNCHANGED <<raw_text, max_len, blocks, bi, stext, i, n, chunks, doc>>
    /\ UNCHANGED scoringVars

\* lines 134-140: the early return and the block segmentation
AddFullText ==
    /\ pc = "add_full_text"
    /\ IF text = <<>>
       THEN /\ pc' = "done"
            /\ UNCHANGED blocks
       ELSE /\ blocks' = SegmentBlocks(text)
            /\ pc' = "blocks"
    /\ bi' = 0
    /\ UNCHANGED <<raw_text, max_len, text, stext, i, n, chunks, doc>>
    /\ UNCHANGED scoringVars

\* lines 142-147 and 113-118: one block is normalised; an empty one adds an
\* empty paragraph, any other enters _split_long_paragraphs
NextBlock ==
    /\ pc = "blocks"
    /\ bi < Len(blocks)
    /\ LET block == NormalizeBlock(blocks[bi + 1])
       IN  IF block = <<>>
           THEN /\ doc' = Append(doc, <<>>)
                /\ bi' = bi + 1
                /\ UNCHANGED <<pc, stext, i, n, chunks>>
           ELSE IF Strip(block) = <<>>
           THEN /\ stext' = <<>>
                /\ bi' = bi + 1
                /\ UNCHANGED <<pc, i, n, chunks, doc>>
           ELSE /\ stext' = Strip(block)
                /\ i' = 0
                /\ n' = Len(Strip(block))
                /\ chunks' = <<>>
                /\ pc' = "split"
                /\ UNCHANGED <<bi, doc>>
    /\ UNCHANGED <<raw_text, max_len, text, blocks>>
    /\ UNCHANGED scoringVars

\* lines 119-126: one iteration of the chunking loop
SplitStep ==
    /\ pc = "split"
    /\ i < n
    /\ LET k == CutPoint(stext, i, max_len)
       IN  /\ chunks' = Append(chunks, Chunk(stext, i, k))
           /\ i' = k
    /\ UNCHANGED <<pc, raw_text, max_len, text, blocks, bi, stext, n, doc>>
    /\ UNCHANGED scoringVars

\* line 127 and lines 147-149: the non-empty chunks become paragraphs
SplitReturn ==
    /\ pc = "split"
    /\ ~(i < n)
    /\ doc' = doc \o NonEmpty(chunks)
    /\ bi' = bi + 1
    /\ pc' = "blocks"
    /\ UNCHANGED <<raw_text, max_len, text, blocks, stext, i, n, chunks>>
    /\ UNCHANGED scoringVars

\* the for loop of line 142 is exhausted
BlocksDone ==
    /\ pc = "blocks"
    /\ bi = Len(blocks)
    /\ pc' = "done"
    /\ UNCHANGED <<raw_text, max_len, text, blocks, bi, stext, i, n, chunks, doc>>
    /\ UNCHANGED scoringVars

\* make_word(scores, final_pct, label, raw_text), evidence section
Init ==
    /\ pc = "make_word"
    /\ raw_text \in WordTexts
    /\ EvidenceIdle
    /\ ScoringIdle

Next ==
    \/ Recortar
    \/ AddFullText
    \/ NextBlock
    \/ SplitStep
    \/ SplitReturn
    \/ BlocksDone

Spec == Init /\ [][Next]_vars

\* _add_full_text_as_paragraphs(doc, text, max_len) on its own
InitFormat ==
    /\ pc = "add_full_text"
    /\ raw_text = <<>>
    /\ text \in FormatTexts
    /\ max_len \in 1..MaxMaxLen
    /\ blocks = <<>>
    /\ bi = 0
    /\ stext = <<>>
    /\ i = 0
    /\ n = 0
    /\ chunks = <<>>
    /\ doc = <<>>
    /\ ScoringIdle

NextFormat ==
    \/ AddFullText
    \/ NextBlock
    \/ SplitStep
    \/ SplitReturn
    \/ BlocksDone

SpecFormat == InitFormat /\ [][NextFormat]_vars

----------------------------------------------------------------------------
(* Scoring: naive_auto_score, weighted_total, decision.                    *)

CRITERIA ==
    <<"identificacion", "objetivos", "metodologia", "resultados", "formacion",
      "difusion", "transferencia", "equipo", "gestion_recursos",
      "calidad_formal", "impacto">>

\* the keys the model scores: the first NumCriteria of CRITERIA
Keys == {CRITERIA[x] : x \in 1..Min(NumCriteria, Len(CRITERIA))}

\* dict.get(key, default)
Get(d, key, default) == IF key \in DOMAIN d THEN d[key] ELSE default

\* RatioBand with the bounds of the bands included (<= for <)
RatioBandInclusive(hits, total) ==
    IF total = 0 THEN 0
    ELSE IF hits = 0 THEN 0
    ELSE IF 4 * hits <= total THEN 1
    ELSE IF 2 * hits <= total THEN 2
    ELSE IF 4 * hits <= 3 * total THEN 3
    ELSE 4

\* lines 57-70: the band of hits keywords found among total keywords
\* (hits/total against 0.25, 0.5 and 0.75, compared without division)
RatioBand(hits, total) ==
    IF total = 0 THEN 0
    ELSE IF hits = 0 THEN 0
    ELSE IF 4 * hits < total THEN 1
    ELSE IF 2 * hits < total THEN 2
    ELSE IF 4 * hits < 3 * total THEN 3
    ELSE 4

\* line 57: sum(1 for w in words if w.lower() in lower)
Hits(t, ws) ==
    Cardinality({x \in 1..Len(ws) : Contains(Lower(t), Lower(ws[x]))})

\* lines 54-70
NaiveAutoScore(t, key) ==
    LET ws == Get(RUBRIC.keywords, key, <<>>)
    IN  RatioBand(Hits(t, ws), Len(ws))

\* round(num/den, 2) in hundredths, for num >= 0 and den > 0: Python rounds
\* a tie to the even neighbour
Round2(num, den) ==
    LET q == (100 * num) \div den
        r == (100 * num) % den
    IN  IF 2 * r < den THEN q
        ELSE IF 2 * r > den THEN q + 1
        ELSE IF q % 2 = 0 THEN q ELSE q + 1

\* the sum over the items of scores of v * weights.get(k, 0)
RECURSIVE WeightedSum(_, _)
WeightedSum(sc, ks) ==
    IF ks = {} THEN 0
    ELSE LET k == CHOOSE x \in ks : TRUE
         IN  sc[k] * Get(RUBRIC.weights, k, 0) + WeightedSum(sc, ks \ {k})

\* lines 72-78: every term is v / scale.max * w, and the total is rounded
WeightedTotal(sc) == Round2(WeightedSum(sc, DOMAIN sc), RUBRIC.scale.max)

\* Decision with the thresholds excluded (> for >=)
DecisionStrict(pct) ==
    IF pct > RUBRIC.thresholds.aprobado THEN "APROBADO"
    ELSE IF pct > RUBRIC.thresholds.aprobado_obs
         THEN "APROBADO CON OBSERVACIONES"
         ELSE "NO APROBADO"

\* lines 80-87
Decision(pct) ==
    IF pct >= RUBRIC.thresholds.aprobado THEN "APROBADO"
    ELSE IF pct >= RUBRIC.thresholds.aprobado_obs
         THEN "APROBADO CON OBSERVACIONES"
         ELSE "NO APROBADO"

\* line 269: st.slider(name, min_value=0, max_value=4, ...)
SliderMin == 0
SliderMax == 4

----------------------------------------------------------------------------
(* Rubrics and texts of the scoring runs.  rubric_final.yaml is read at    *)
(* start (line 17) and is not part of the sources: its values are inputs.  *)

alpha == <<"a","l","p","h","a">>
beta == <<"b","e","t","a">>
Gamma == <<"G","a","m","m","a">>

\* the keywords a criterion may list, in the order it lists them
AllWords ==
    << alpha, beta, Gamma, <<"t","a">>, <<"e">>, <<"d","e","l","t","a">>,
       <<"z","z">> >>

KeywordLists == {SubSeq(AllWords, 1, m) : m \in 0..Min(MaxWords, Len(AllWords))}

ScoreTokens ==
    { <<"A","L","P","H","A">>, beta, <<"g","a","m","m","a">>,
      <<"d","e","l","t","a">>, <<" ">>, <<"z">> }

ScoreTexts == {Flatten(ts) : ts \in SeqsUpTo(ScoreTokens, MaxScoreTokens)}

WeightValues == {50, 75}

\* weights: any subset of the keys may be listed (the rest count 0)
WeightConfigs == UNION {[D -> WeightValues] : D \in SUBSET Keys}

ScaleConfigs ==
    { [min |-> 0, max |-> 4], [min |-> 0, max |-> 3], [min |-> 1, max |-> 5] }

\* thresholds in hundredths, aprobado_obs <= aprobado
ThresholdConfigs ==
    { [aprobado |-> 8000, aprobado_obs |-> 6000],
      [aprobado |-> 8000, aprobado_obs |-> 4000],
      [aprobado |-> 6000, aprobado_obs |-> 6000],
      [aprobado |-> 6000, aprobado_obs |-> 4000] }

FirstKey == CRITERIA[1]

\* the rubric of the spec's scenarios: weights 50/50, scale 0-4, 80/60
ScenarioRubric ==
    [weights |-> [k \in Keys |-> 50],
     keywords |-> [k \in {FirstKey} |-> <<alpha, beta>>],
     scale |-> [min |-> 0, max |-> 4],
     thresholds |-> [aprobado |-> 8000, aprobado_obs |-> 6000]]

----------------------------------------------------------------------------
(* The evaluation of the UI, lines 255-272.                                *)

\* lines 255-262: the automatic score of every criterion
AutoScore ==
    /\ pc = "uploaded"
    /\ auto_scores' = [k \in Keys |-> NaiveAutoScore(raw_text, k)]
    /\ pc' = "sliders"
    /\ UNCHANGED <<raw_text, RUBRIC, scores, final_pct, label>>
    /\ UNCHANGED evidenceVars

\* lines 267-269: every slider holds a value the operator chose in 0..4
\* (it starts at the automatic score)
Sliders ==
    /\ pc = "sliders"
    /\ scores' \in [Keys -> SliderMin..SliderMax]
    /\ pc' = "total"
    /\ UNCHANGED <<raw_text, RUBRIC, auto_scores, final_pct, label>>
    /\ UNCHANGED evidenceVars

\* line 271
Total ==
    /\ pc = "total"
    /\ final_pct' = WeightedTotal(scores)
    /\ pc' = "decide"
    /\ UNCHANGED <<raw_text, RUBRIC, auto_scores, scores, label>>
    /\ UNCHANGED evidenceVars

\* line 272
Decide ==
    /\ pc = "decide"
    /\ label' = Decision(final_pct)
    /\ pc' = "result"
    /\ UNCHANGED <<raw_text, RUBRIC, auto_scores, scores, final_pct>>
    /\ UNCHANGED evidenceVars

InitEval ==
    /\ pc = "uploaded"
    /\ raw_text \in ScoreTexts
    /\ RUBRIC \in { [ScenarioRubric EXCEPT !.weights = w, !.scale = sc, !.thresholds = th] :
                      w \in WeightConfigs, sc \in ScaleConfigs,
                      th \in {ScenarioRubric.thresholds} }
    /\ auto_scores = <<>>
    /\ scores = <<>>
    /\ final_pct = 0
    /\ label = ""
    /\ EvidenceIdle

NextEval ==
    \/ AutoScore
    \/ Sliders
    \/ Total
    \/ Decide

SpecEval == InitEval /\ [][NextEval]_vars

\* naive_auto_score(text, key) on its own: every keyword list, every text
InitAuto ==
    /\ pc = "uploaded"
    /\ raw_text \in ScoreTexts
    /\ RUBRIC \in { [ScenarioRubric EXCEPT !.keywords = [k \in {FirstKey} |-> ws]] :
                      ws \in KeywordLists }
    /\ auto_scores = <<>>
    /\ scores = <<>>
    /\ final_pct = 0
    /\ label = ""
    /\ EvidenceIdle

NextAuto == AutoScore

SpecAuto == InitAuto /\ [][NextAuto]_vars

\* decision(final_pct) on its own: every percentage, every threshold pair
InitDecision ==
    /\ pc = "decide"
    /\ raw_text = <<>>
    /\ RUBRIC \in { [ScenarioRubric EXCEPT !.thresholds = th] : th \in ThresholdConfigs }
    /\ auto_scores = <<>>
    /\ scores = <<>>
    /\ final_pct \in 0..MaxPct
    /\ label = ""
    /\ EvidenceIdle

NextDecision == Decide

SpecDecision == InitDecision /\ [][NextDecision]_vars

----------------------------------------------------------------------------
(* Properties.                                                             *)

\* the characters of s that are not whitespace, in order
RECURSIVE NonWhitespace(_)
NonWhitespace(s) ==
    IF s = <<>> THEN <<>>
    ELSE IF IsSpace(Head(s)) THEN NonWhitespace(Tail(s))
    ELSE <<Head(s)>> \o NonWhitespace(Tail(s))

\* C1: every paragraph the evidence formatter produces (every chunk of
\* _split_long_paragraphs, every paragraph added to the document) has
\* length <= max_len.
C1_ParagraphsWithinMaxLen ==
    /\ \A x \in 1..Len(doc) : Len(doc[x]) <= max_len
    /\ \A x \in 1..Len(chunks) : Len(chunks[x]) <= max_len

\* a block longer than max_len was cut into several paragraphs, one of them
\* of exactly max_len characters
C1_Witness ==
    /\ pc = "done"
    /\ Len(blocks) = 1
    /\ Len(NormalizeBlock(blocks[1])) > max_len
    /\ Len(doc) >= 2
    /\ \E x \in 1..Len(doc) : Len(doc[x]) = max_len

\* C2: the paragraphs produced, concatenated and with whitespace deleted,
\* are the input text with its whitespace deleted.
C2_NoCharacterLoss ==
    pc = "done" => NonWhitespace(Flatten(doc)) = NonWhitespace(text)

\* a text of several blocks holding both letters, one block cut
C2_Witness ==
    /\ pc = "done"
    /\ Len(blocks) >= 2
    /\ Len(doc) >= 3
    /\ Len(NonWhitespace(text)) >= 3
    /\ Contains(text, <<"a">>)
    /\ Contains(text, <<"b">>)

\* C10: every iteration of the chunking loop moves the cursor forward,
\* i < k <= min(i + max_len, n), so after at most n iterations (there are
\* never more chunks than characters consumed) the loop ends, with i = n.
C10_SplitLoopTerminates ==
    [][ /\ (pc = "split" /\ i < n) =>
              /\ i < i'
              /\ i' <= Min(i + max_len, n)
              /\ Len(chunks') = Len(chunks) + 1
              /\ Len(chunks') <= i'
        /\ (pc = "split" /\ ~(i < n)) => i = n ]_vars

\* the loop has ended after several iterations, not all of one character
C10_Witness ==
    /\ pc = "split"
    /\ i = n
    /\ Len(chunks) >= 2
    /\ Len(chunks) < n

\* C5: decision maps a percentage to "APROBADO" iff pct >= aprobado, to
\* "APROBADO CON OBSERVACIONES" iff aprobado_obs <= pct < aprobado, and to
\* "NO APROBADO" iff pct < aprobado_obs: always one of the three.
C5_DecisionPartition ==
    pc = "result" =>
        LET th == RUBRIC.thresholds
        IN  /\ label \in {"APROBADO", "APROBADO CON OBSERVACIONES", "NO APROBADO"}
            /\ label = "APROBADO" <=> final_pct >= th.aprobado
            /\ label = "APROBADO CON OBSERVACIONES" <=>
                   (th.aprobado_obs <= final_pct /\ final_pct < th.aprobado)
            /\ label = "NO APROBADO" <=> final_pct < th.aprobado_obs

\* a percentage equal to thresholds.aprobado was classified
C5_Witness ==
    /\ pc = "result"
    /\ final_pct = RUBRIC.thresholds.aprobado
    /\ RUBRIC.thresholds.aprobado_obs < RUBRIC.thresholds.aprobado
    /\ label = "APROBADO"

\* w occurs in t when case is ignored: some piece of t is w up to case
OccursIgnoringCase(t, w) ==
    \E a \in 0..Len(t) : \E b \in a..Len(t) : Lower(Slice(t, a, b)) = Lower(w)

\* C6: naive_auto_score is 0 for an empty keyword list or no hit, 1 for
\* 0 < hits/total < 0.25, 2 for 0.25 <= hits/total < 0.5, 3 for
\* 0.5 <= hits/total < 0.75 and 4 from 0.75 on, where hits counts the
\* keywords that occur in the text when case is ignored.
C6_RatioBanded ==
    pc = "sliders" =>
        LET ws == Get(RUBRIC.keywords, FirstKey, <<>>)
            total == Len(ws)
            hits == Cardinality({x \in 1..total : OccursIgnoringCase(raw_text, ws[x])})
            a == auto_scores[FirstKey]
        IN  /\ (total = 0 \/ hits = 0) => a = 0
            /\ (hits > 0 /\ 4 * hits < total) => a = 1
            /\ (total > 0 /\ total <= 4 * hits /\ 2 * hits < total) => a = 2
            /\ (total > 0 /\ total <= 2 * hits /\ 4 * hits < 3 * total) => a = 3
            /\ (total > 0 /\ 3 * total <= 4 * hits) => a = 4
            /\ \A k \in Keys \ DOMAIN RUBRIC.keywords : auto_scores[k] = 0

\* keywords [alpha, beta], a text with alpha only: the score is 3
C6_Witness ==
    /\ pc = "sliders"
    /\ RUBRIC.keywords[FirstKey] = <<alpha, beta>>
    /\ OccursIgnoringCase(raw_text, alpha)
    /\ ~OccursIgnoringCase(raw_text, beta)
    /\ auto_scores[FirstKey] = 3

\* the sum of the rubric's weights
RECURSIVE WeightSum(_)
WeightSum(ks) ==
    IF ks = {} THEN 0
    ELSE LET k == CHOOSE x \in ks : TRUE
         IN  RUBRIC.weights[k] + WeightSum(ks \ {k})

\* C3: weighted_total is 100 * SUM(score*weight) / (scaleMax * SUM(weight))
\* rounded to 2 decimals, for every weight configuration, and 0.0 when the
\* weights sum to zero.
C3_NormalisedByWeightSum ==
    pc \in {"decide", "result"} =>
        LET sw == WeightSum(DOMAIN RUBRIC.weights)
        IN  final_pct =
                IF sw = 0 THEN 0
                ELSE Round2(100 * WeightedSum(scores, DOMAIN scores),
                            RUBRIC.scale.max * sw)

\* C4: for scores in [scale.min, scale.max] and non-negative weights of
\* nonzero sum, the percentage lies in [0, 100].
C4_PercentageInRange ==
    ( /\ pc \in {"decide", "result"}
      /\ \A k \in Keys : RUBRIC.scale.min <= scores[k] /\ scores[k] <= RUBRIC.scale.max
      /\ \A k \in DOMAIN RUBRIC.weights : RUBRIC.weights[k] >= 0
      /\ WeightSum(DOMAIN RUBRIC.weights) # 0 )
    => (0 <= final_pct /\ final_pct <= 100 * 100)

\* C7: every automatic score and every adjusted score that reaches
\* weighted_total lies in [scale.min, scale.max] of the loaded rubric.
C7_ScoresWithinScale ==
    pc \in {"total", "decide", "result"} =>
        \A k \in Keys :
            /\ RUBRIC.scale.min <= auto_scores[k]
            /\ auto_scores[k] <= RUBRIC.scale.max
            /\ RUBRIC.scale.min <= scores[k]
            /\ scores[k] <= RUBRIC.scale.max

\* the positions of raw at which a header phrase occurs, case ignored
PhrasePositions(raw) ==
    {a \in 0..Len(raw) :
        \E x \in 1..Len(inicios) : \E b \in a..Len(raw) :
            Lower(Slice(raw, a, b)) = Lower(inicios[x])}

\* C8: if a header phrase occurs in the text (case ignored), the result is
\* the text from the earliest such position to its end; if none occurs, the
\* result is the text.  Result and text are compared up to the whitespace
\* around them, which strip() removes from what the function returns.
C8_KeepsFromEarliestHeader ==
    pc # "make_word" =>
        LET at == PhrasePositions(raw_text)
        IN  IF at = {} THEN Strip(text) = Strip(raw_text)
            ELSE LET first == CHOOSE a \in at : \A b \in at : a <= b
                 IN  Strip(text) = Strip(Slice(raw_text, first, Len(raw_text)))

====
